---- MODULE Spec2Model ----
(***************************************************************************)
(* Model of the extraction-and-ranking pipeline of abodeRound1.py          *)
(* (utils.py part): get_sections_from_pdf, score_relevance and             *)
(* process_documents.                                                      *)
(*                                                                         *)
(* Strings are sequences of one-character strings.  A document is the      *)
(* sequence of its pages, a page the sequence of the raw texts of its      *)
(* blocks (b[4] of a PyMuPDF block).  Scores are fixed-point integers in   *)
(* units of 10^-5, so that round(score, 4) is a rounding to tens.          *)
(* persona, job and timestamp are copied verbatim into the metadata and    *)
(* influence nothing else; they are left out of the state.                 *)
(***************************************************************************)
EXTENDS Integers, Sequences, FiniteSets, TLC

(* ---------------- program constants ---------------- *)
MinLen == 30        \* len(text) >= 30
TopK == 10          \* [:10]
TitleLen == 50      \* [:50]
RefinedLen == 300   \* [:300]
Digits == 10        \* round(score, 4): one unit of 10^-4 is 10 units of 10^-5

(* ---------------- bounds of the model ---------------- *)
MaxDocs == 3        \* longest list of input paths

(* ---------------- strings ---------------- *)
Whitespace == {" ", "\n", "\t"}

Min(a, b) == IF a < b THEN a ELSE b

Rep(c, n) == [i \in 1..n |-> c]

Range(s) == {s[i] : i \in DOMAIN s}

\* s[:n]
Prefix(s, n) == SubSeq(s, 1, Min(n, Len(s)))

RECURSIVE lstrip(_)
lstrip(s) ==
    IF s # <<>> /\ Head(s) \in Whitespace THEN lstrip(Tail(s)) ELSE s

RECURSIVE rstrip(_)
rstrip(s) ==
    IF s # <<>> /\ s[Len(s)] \in Whitespace
    THEN rstrip(SubSeq(s, 1, Len(s) - 1))
    ELSE s

\* str.strip()
strip(s) == rstrip(lstrip(s))

\* s.split("\n")[0]
RECURSIVE first_line(_)
first_line(s) ==
    IF s = <<>> \/ Head(s) = "\n" THEN <<>>
    ELSE <<Head(s)>> \o first_line(Tail(s))

\* os.path.basename(path): what follows the last "/"
RECURSIVE basename(_)
basename(p) ==
    IF \E i \in DOMAIN p : p[i] = "/"
    THEN basename(Tail(p))
    ELSE p

\* round(x, 4) on a score in units of 10^-5, result in units of 10^-4
\* (round-half-to-even, as Python rounds)
round4(x) ==
    LET q == x \div Digits
        r == x % Digits
    IN  IF 2 * r < Digits THEN q
        ELSE IF 2 * r > Digits THEN q + 1
        ELSE IF q % 2 = 0 THEN q ELSE q + 1

(* ---------------- inputs ---------------- *)
Short10  == Rep("a", 10) \o <<"\n">>
Pad29    == <<" ", " ">> \o Rep("a", 29) \o <<" ", "\n">>
Exact30  == <<"\t">> \o Rep("b", 30) \o <<"\n">>
TwoLine  == Rep("a", 20) \o <<"\n">> \o Rep("b", 20) \o <<"\n">>
LongText == Rep("c", 60) \o <<"\n">> \o Rep("d", 250) \o <<"\n">>
Blank    == <<" ", "\n">>

\* a file fitz.open raises on, and files it opens (with their pages)
Unreadable == [readable |-> FALSE, pages |-> <<>>]

Doc(pages) == [readable |-> TRUE, pages |-> pages]

NoPages   == Doc(<<>>)
OnlyShort == Doc(<< <<Short10, Blank>> >>)
Mixed     == Doc(<< <<Pad29, Exact30>>, <<>>, <<TwoLine, Short10>> >>)
Big       == Doc(<< <<Exact30, TwoLine, Exact30>>, <<TwoLine, Exact30, TwoLine>> >>)
Long      == Doc(<< <<LongText>> >>)

Contents == {Unreadable, NoPages, OnlyShort, Mixed, Big, Long}

Paths == { <<"u", "/", "v", "/", "a">>, <<"b">> }

\* cosine similarities the embedding backend may report, in units of 10^-5
ScoreValues == {-15, 81226, 81234}

SeqsUpTo(S, n) == UNION {[1..m -> S] : m \in 0..n}

(* ---------------- state ---------------- *)
VARIABLES
    pdf_paths,        \* argument of process_documents
    fs,               \* what fitz.open finds at each of the paths
    pc,               \* position in process_documents
    k,                \* index in pdf_paths of the next path of the loop
    all_sections,     \* the pooled candidates
    ranked_sections,  \* score_relevance(...)[:10]
    encode_calls,     \* log of the calls of model.encode
    error,            \* the exception that ended the run, or "none"
    result            \* the returned report, or NoResult

vars == <<pdf_paths, fs, pc, k, all_sections, ranked_sections,
          encode_calls, error, result>>

NoResult == [returned |-> FALSE]

(* ---------------- get_sections_from_pdf ---------------- *)
\* variant: the length test on the raw block text instead of the stripped one
RECURSIVE page_sections_rawlen(_, _, _)
page_sections_rawlen(name, pageno, blocks) ==
    IF blocks = <<>> THEN <<>>
    ELSE LET text == strip(Head(blocks))
         IN  (IF Len(Head(blocks)) >= MinLen
              THEN << [doc |-> name, page |-> pageno, text |-> text] >>
              ELSE <<>>)
             \o page_sections_rawlen(name, pageno, Tail(blocks))

\* the inner loop: for b in blocks
RECURSIVE page_sections(_, _, _)
page_sections(name, pageno, blocks) ==
    IF blocks = <<>> THEN <<>>
    ELSE LET text == strip(Head(blocks))
         IN  (IF Len(text) >= MinLen
              THEN << [doc |-> name, page |-> pageno, text |-> text] >>
              ELSE <<>>)
             \o page_sections(name, pageno, Tail(blocks))

\* the outer loop from page index i (0-based): for i, page in enumerate(doc)
RECURSIVE doc_sections(_, _, _)
doc_sections(name, doc, i) ==
    IF i >= Len(doc) THEN <<>>
    ELSE page_sections(name, i + 1, doc[i + 1]) \o doc_sections(name, doc, i + 1)

get_sections_from_pdf(path, doc) == doc_sections(basename(path), doc, 0)

(* ---------------- score_relevance ---------------- *)
\* texts[i]["score"] = float(s)
with_scores(texts, sim) ==
    [i \in DOMAIN texts |->
        [doc |-> texts[i].doc, page |-> texts[i].page,
         text |-> texts[i].text, score |-> sim[texts[i].text]]]

\* variant: x goes in front of the elements whose score equals its own
RECURSIVE insert_before_ties(_, _)
insert_before_ties(x, s) ==
    IF s = <<>> THEN <<x>>
    ELSE IF Head(s).score > x.score
         THEN <<Head(s)>> \o insert_before_ties(x, Tail(s))
    ELSE <<x>> \o s

\* x goes behind every element whose score is >= its own
RECURSIVE insert(_, _)
insert(x, s) ==
    IF s = <<>> THEN <<x>>
    ELSE IF Head(s).score >= x.score THEN <<Head(s)>> \o insert(x, Tail(s))
    ELSE <<x>> \o s

\* variant: sorted(texts, key=score) without reverse=True
RECURSIVE insert_asc(_, _)
insert_asc(x, s) ==
    IF s = <<>> THEN <<x>>
    ELSE IF Head(s).score <= x.score THEN <<Head(s)>> \o insert_asc(x, Tail(s))
    ELSE <<x>> \o s

RECURSIVE sorted_asc(_, _)
sorted_asc(s, n) ==
    IF n = 0 THEN <<>> ELSE insert_asc(s[n], sorted_asc(s, n - 1))

\* sorted(texts, key=score, reverse=True) of the first n elements: stable
RECURSIVE sorted_desc(_, _)
sorted_desc(s, n) ==
    IF n = 0 THEN <<>> ELSE insert(s[n], sorted_desc(s, n - 1))

score_relevance(texts, sim) ==
    LET scored == with_scores(texts, sim)
    IN  sorted_desc(scored, Len(scored))

\* variant: no [:10]
top_sections_noslice(texts, sim) == score_relevance(texts, sim)

\* variant: the slice taken before the sort, score_relevance(all_sections[:10], q)
top_sections_slice_first(texts, sim) == score_relevance(Prefix(texts, TopK), sim)

\* score_relevance(all_sections, full_query)[:10]
top_sections(texts, sim) == Prefix(score_relevance(texts, sim), TopK)

(* ---------------- the report ---------------- *)
\* variant: s["text"][:50] without the split
extracted_entry_nosplit(s, i) ==
    [document |-> s.doc, page |-> s.page,
     section_title |-> Prefix(s.text, TitleLen),
     importance_rank |-> i,
     score |-> round4(s.score)]

extracted_entry(s, i) ==
    [document |-> s.doc, page |-> s.page,
     section_title |-> Prefix(first_line(s.text), TitleLen),
     importance_rank |-> i,
     score |-> round4(s.score)]

subsection_entry(s) ==
    [document |-> s.doc, page |-> s.page,
     refined_text |-> Prefix(s.text, RefinedLen)]

\* variant: metadata.documents taken from the ranked sections
build_result_from_sections(paths, ranked) ==
    [returned |-> TRUE,
     metadata |-> [documents |-> [i \in DOMAIN ranked |-> ranked[i].doc]],
     extracted_sections |->
        [i \in DOMAIN ranked |-> extracted_entry(ranked[i], i)],
     subsection_analysis |->
        [i \in DOMAIN ranked |-> subsection_entry(ranked[i])]]

build_result(paths, ranked) ==
    [returned |-> TRUE,
     metadata |-> [documents |-> [i \in DOMAIN paths |-> basename(paths[i])]],
     extracted_sections |->
        [i \in DOMAIN ranked |-> extracted_entry(ranked[i], i)],
     subsection_analysis |->
        [i \in DOMAIN ranked |-> subsection_entry(ranked[i])]]

(* ---------------- process_documents ---------------- *)
Init ==
    /\ pdf_paths \in SeqsUpTo(Paths, MaxDocs)
    /\ fs \in [Range(pdf_paths) -> Contents]
    /\ pc = "segment"
    /\ k = 1
    /\ all_sections = <<>>
    /\ ranked_sections = <<>>
    /\ encode_calls = <<>>
    /\ error = "none"
    /\ result = NoResult

\* variant: a document that cannot be opened is skipped
SegmentDocument_skip ==
    /\ pc = "segment"
    /\ k <= Len(pdf_paths)
    /\ all_sections' = all_sections
          \o (IF fs[pdf_paths[k]].readable
              THEN get_sections_from_pdf(pdf_paths[k], fs[pdf_paths[k]].pages)
              ELSE <<>>)
    /\ k' = k + 1
    /\ UNCHANGED <<pc, error>>
    /\ UNCHANGED <<pdf_paths, fs, ranked_sections, encode_calls, result>>

\* one iteration of: for path in pdf_paths
SegmentDocument ==
    /\ pc = "segment"
    /\ k <= Len(pdf_paths)
    /\ IF ~fs[pdf_paths[k]].readable
       THEN /\ pc' = "failed"
            /\ error' = "open"
            /\ UNCHANGED <<k, all_sections>>
       ELSE /\ all_sections' = all_sections
                   \o get_sections_from_pdf(pdf_paths[k], fs[pdf_paths[k]].pages)
            /\ k' = k + 1
            /\ UNCHANGED <<pc, error>>
    /\ UNCHANGED <<pdf_paths, fs, ranked_sections, encode_calls, result>>

\* score_relevance on a pool that is not empty, and the slice.  The backend
\* encodes a text the same way wherever it stands in the batch, so the score
\* is a function sim of the candidate's text; which function is the backend's
\* choice.
Score ==
    /\ pc = "segment"
    /\ k > Len(pdf_paths)
    /\ all_sections # <<>>
    /\ \E sim \in [{c.text : c \in Range(all_sections)} -> ScoreValues] :
          /\ all_sections' = with_scores(all_sections, sim)
          /\ ranked_sections' = top_sections(all_sections, sim)
    /\ encode_calls' = encode_calls
          \o << [input |-> "texts", size |-> Len(all_sections)],
                [input |-> "query", size |-> 1] >>
    /\ pc' = "report"
    /\ UNCHANGED <<pdf_paths, fs, k, error, result>>

\* score_relevance on the empty pool: model.encode([]) is called; the backend
\* (torch.stack of no tensors, or the similarity of a 0-column matrix) raises
ScoreEmptyRaises ==
    /\ pc = "segment"
    /\ k > Len(pdf_paths)
    /\ all_sections = <<>>
    /\ encode_calls' = encode_calls \o << [input |-> "texts", size |-> 0] >>
    /\ pc' = "failed"
    /\ error' = "encode"
    /\ UNCHANGED <<pdf_paths, fs, k, all_sections, ranked_sections, result>>

\* score_relevance on the empty pool with a backend that yields no scores
ScoreEmptyReturns ==
    /\ pc = "segment"
    /\ k > Len(pdf_paths)
    /\ all_sections = <<>>
    /\ encode_calls' = encode_calls
          \o << [input |-> "texts", size |-> 0],
                [input |-> "query", size |-> 1] >>
    /\ ranked_sections' = <<>>
    /\ pc' = "report"
    /\ UNCHANGED <<pdf_paths, fs, k, all_sections, error, result>>

\* result = {...}; return result
BuildReport ==
    /\ pc = "report"
    /\ result' = build_result(pdf_paths, ranked_sections)
    /\ pc' = "done"
    /\ UNCHANGED <<pdf_paths, fs, k, all_sections, ranked_sections,
                   encode_calls, error>>

Next ==
    \/ SegmentDocument
    \/ Score
    \/ ScoreEmptyRaises
    \/ ScoreEmptyReturns
    \/ BuildReport

Spec == Init /\ [][Next]_vars

TypeOK ==
    /\ pc \in {"segment", "report", "done", "failed"}
    /\ k \in 1..(Len(pdf_paths) + 1)
    /\ error \in {"none", "open", "encode"}

(***************************************************************************)
(* Properties.  The definitions below restate, without recursion, what the *)
(* properties expect of the inputs: they are not part of the model.        *)
(***************************************************************************)
AllBlank(t) == \A i \in DOMAIN t : t[i] \in Whitespace

FirstNonBlank(t) ==
    CHOOSE i \in DOMAIN t :
        t[i] \notin Whitespace /\ \A j \in 1..(i - 1) : t[j] \in Whitespace

LastNonBlank(t) ==
    CHOOSE i \in DOMAIN t :
        t[i] \notin Whitespace /\ \A j \in (i + 1)..Len(t) : t[j] \in Whitespace

MaxOf(S) == CHOOSE x \in S : \A y \in S : x >= y

\* the block text without its leading and trailing whitespace
Trimmed(t) ==
    IF AllBlank(t) THEN <<>> ELSE SubSeq(t, FirstNonBlank(t), LastNonBlank(t))

\* the path without its directories
Base(p) ==
    LET slashes == {i \in DOMAIN p : p[i] = "/"}
    IN  IF slashes = {} THEN p ELSE SubSeq(p, MaxOf(slashes) + 1, Len(p))

IsPrefixOf(a, b) == Len(a) <= Len(b) /\ a = SubSeq(b, 1, Len(a))

Readable(i) == fs[pdf_paths[i]].readable

Blocks(i) == fs[pdf_paths[i]].pages

\* <<i, p, b>>: block b of page p of the i-th input document qualifies
Qualifying(n) ==
    {pos \in UNION {UNION {{<<i, p, b>> : b \in DOMAIN Blocks(i)[p]}
                              : p \in DOMAIN Blocks(i)}
                      : i \in 1..n} :
        Len(Trimmed(Blocks(pos[1])[pos[2]][pos[3]])) >= MinLen}

Before(x, y) ==
    \/ x[1] < y[1]
    \/ x[1] = y[1] /\ x[2] < y[2]
    \/ x[1] = y[1] /\ x[2] = y[2] /\ x[3] < y[3]

\* the candidate a qualifying block is expected to become
Expected(pos) ==
    [doc  |-> Base(pdf_paths[pos[1]]),
     page |-> pos[2],
     text |-> Trimmed(Blocks(pos[1])[pos[2]][pos[3]])]

Unscored(c) == [doc |-> c.doc, page |-> c.page, text |-> c.text]

Count(s, x) == Cardinality({i \in DOMAIN s : s[i] = x})

Returned == result.returned

(* ---------------- C1 ---------------- *)
\* C1: a returned report has extracted_sections and subsection_analysis of
\* the same length, min(10, N), N the number of blocks of trimmed length
\* >= 30 over all the input documents.
C1_ReportLength ==
    Returned =>
        LET N == Cardinality(Qualifying(Len(pdf_paths)))
        IN  /\ Len(result.extracted_sections) = Len(result.subsection_analysis)
            /\ Len(result.extracted_sections) = (IF N < TopK THEN N ELSE TopK)

\* a report over more than 10 qualifying blocks, cut to 10 entries
C1_Witness ==
    /\ Returned
    /\ Cardinality(Qualifying(Len(pdf_paths))) > TopK
    /\ Len(result.extracted_sections) = TopK

\* a report over fewer than 10 qualifying blocks has that many entries
C1_WitnessFew ==
    /\ Returned
    /\ Cardinality(Qualifying(Len(pdf_paths))) \in 1..(TopK - 1)
    /\ Len(result.extracted_sections) = Cardinality(Qualifying(Len(pdf_paths)))

(* ---------------- C2 ---------------- *)
\* C2: the entry at position i (1-based here) of extracted_sections has
\* importance_rank i, and its rounded score is >= that of the next entry.
C2_RanksAndScores ==
    Returned =>
        LET es == result.extracted_sections
        IN  /\ \A i \in DOMAIN es : es[i].importance_rank = i
            /\ \A i \in DOMAIN es :
                  i < Len(es) => es[i].score >= es[i + 1].score

\* a report whose reported scores really decrease somewhere and tie elsewhere
C2_Witness ==
    /\ Returned
    /\ \E i, j \in DOMAIN result.extracted_sections :
          /\ i + 1 < j
          /\ result.extracted_sections[i].score
                = result.extracted_sections[i + 1].score
          /\ ranked_sections[i].score # ranked_sections[i + 1].score
          /\ result.extracted_sections[j - 1].score
                > result.extracted_sections[j].score

(* ---------------- C3 ---------------- *)
\* C3: the pool holds exactly the blocks of trimmed length >= 30 of the
\* documents segmented so far, each as (basename, 1-based page, trimmed
\* text), in document, page, block order; every entry of a report comes from
\* such a block.
C3_Segmentation ==
    LET Q == Qualifying(k - 1)
        rank(pos) == 1 + Cardinality({q \in Q : Before(q, pos)})
    IN  /\ Len(all_sections) = Cardinality(Q)
        /\ \A pos \in Q : Unscored(all_sections[rank(pos)]) = Expected(pos)
        /\ Returned =>
              \A i \in DOMAIN result.subsection_analysis :
                 \E pos \in Q :
                    LET e == Expected(pos)
                        s == result.subsection_analysis[i]
                        x == result.extracted_sections[i]
                    IN  /\ s.document = e.doc /\ s.page = e.page
                        /\ x.document = e.doc /\ x.page = e.page
                        /\ IsPrefixOf(s.refined_text, e.text)
                        /\ IsPrefixOf(x.section_title, e.text)

\* a report over a document with padded, short and qualifying blocks, one of
\* them behind an empty page
C3_Witness ==
    /\ Returned
    /\ \E i \in DOMAIN pdf_paths : fs[pdf_paths[i]] = Mixed
    /\ \E i \in DOMAIN all_sections : all_sections[i].page = 3

(* ---------------- C4 ---------------- *)
\* C4: section_title is the first line of the candidate's text cut to 50
\* characters, refined_text the text cut to 300 characters.
C4_Truncation ==
    Returned =>
        \A i \in DOMAIN ranked_sections :
            LET text  == ranked_sections[i].text
                title == result.extracted_sections[i].section_title
                rt    == result.subsection_analysis[i].refined_text
            IN  /\ Len(title) <= TitleLen
                /\ IsPrefixOf(title, text)
                /\ \A j \in DOMAIN title : title[j] # "\n"
                /\ \/ Len(title) = TitleLen
                   \/ Len(title) = Len(text)
                   \/ text[Len(title) + 1] = "\n"
                /\ Len(rt) <= RefinedLen
                /\ IsPrefixOf(rt, text)
                /\ Len(rt) = RefinedLen \/ rt = text

\* a report with a title cut at 50, a title cut at a newline and a text cut at 300
C4_Witness ==
    /\ Returned
    /\ \E i \in DOMAIN ranked_sections :
          /\ Len(ranked_sections[i].text) > RefinedLen
          /\ Len(result.subsection_analysis[i].refined_text) = RefinedLen
          /\ Len(result.extracted_sections[i].section_title) = TitleLen
    /\ \E i \in DOMAIN ranked_sections :
          /\ Len(result.extracted_sections[i].section_title) < TitleLen
          /\ Len(result.extracted_sections[i].section_title)
                < Len(ranked_sections[i].text)

(* ---------------- C5 ---------------- *)
\* C5: metadata.documents is the sequence of the basenames of the input
\* paths, in input order, one per path.
C5_Documents ==
    Returned =>
        /\ Len(result.metadata.documents) = Len(pdf_paths)
        /\ \A i \in DOMAIN pdf_paths :
              result.metadata.documents[i] = Base(pdf_paths[i])

\* three documents, one without any qualifying block, and the top-ranked
\* section not from the first document
C5_Witness ==
    /\ Returned
    /\ Len(pdf_paths) = 3
    /\ \E i \in DOMAIN pdf_paths :
          /\ fs[pdf_paths[i]] = OnlyShort
          /\ \A j \in DOMAIN all_sections :
                all_sections[j].doc # Base(pdf_paths[i])
    /\ result.extracted_sections # <<>>
    /\ result.extracted_sections[1].document # Base(pdf_paths[1])
    /\ Len(pdf_paths[1]) > Len(Base(pdf_paths[1]))
    /\ result.metadata.documents[1] # result.metadata.documents[2]

(* ---------------- C6 ---------------- *)
HasScore(s, v) == LET T(c) == c.score = v IN SelectSeq(s, T)

\* C6: the ranked candidates are in descending order of raw score, and the
\* candidates of any one score are in the order they have in the pool.
C6_StableOrder ==
    pc \in {"report", "done"} =>
        /\ \A i \in DOMAIN ranked_sections :
              i < Len(ranked_sections) =>
                 ranked_sections[i].score >= ranked_sections[i + 1].score
        /\ \A v \in ScoreValues :
              IsPrefixOf(HasScore(ranked_sections, v), HasScore(all_sections, v))

\* a ranking in which candidates of different documents, pages and texts tie
C6_Witness ==
    /\ pc = "done"
    /\ \E i, j \in DOMAIN ranked_sections :
          /\ i < j
          /\ ranked_sections[i].score = ranked_sections[j].score
          /\ ranked_sections[i].text # ranked_sections[j].text
          /\ ranked_sections[i].doc # ranked_sections[j].doc
    /\ \E i \in DOMAIN ranked_sections :
          ranked_sections[i].score # ranked_sections[1].score

(* ---------------- C7 ---------------- *)
\* C7: with an empty pool the scorer makes no encode call.
C7_NoEncodeOnEmptyPool ==
    (k > Len(pdf_paths) /\ all_sections = <<>>) => encode_calls = <<>>

(* ---------------- C8 ---------------- *)
\* C8: with an empty pool process_documents fails with an EmptyInputError and
\* returns no report; no returned report has an empty extracted_sections.
C8_EmptyPoolFails ==
    /\ (k > Len(pdf_paths) /\ all_sections = <<>> /\ pc # "segment") =>
          (pc = "failed" /\ error = "EmptyInputError" /\ ~Returned)
    /\ Returned => result.extracted_sections # <<>>

(* ---------------- C9 ---------------- *)
\* C9: when some input document cannot be opened, the run never gets past
\* the first such document: nothing after it is segmented, no encode call is
\* made, nothing is ranked, no report is returned, and the run ends with the
\* error of the open at that document.
C9_FailFast ==
    LET bad == {i \in DOMAIN pdf_paths : ~Readable(i)}
    IN  /\ bad # {} =>
              LET f == CHOOSE i \in bad : \A j \in bad : i <= j
              IN  /\ k <= f
                  /\ pc \in {"segment", "failed"}
                  /\ Len(all_sections) = Cardinality(Qualifying(k - 1))
                  /\ encode_calls = <<>>
                  /\ ranked_sections = <<>>
                  /\ ~Returned
                  /\ pc = "failed" => (k = f /\ error = "open")
        /\ error = "open" => (pc = "failed" /\ k \in bad)

\* the second of three documents fails, after the first contributed
\* candidates and before a third that would contribute some
C9_Witness ==
    /\ pc = "failed"
    /\ error = "open"
    /\ k = 2
    /\ Len(pdf_paths) = 3
    /\ all_sections # <<>>
    /\ fs[pdf_paths[3]] = Mixed

(* ---------------- C10 ---------------- *)
\* C10: the entries of the report are, position by position, distinct
\* candidates of the pool, and a candidate of the pool that is left out has a
\* raw score <= that of every candidate in the report.
C10_TopScoring ==
    Returned =>
        /\ Len(result.extracted_sections) = Len(ranked_sections)
        /\ \A i \in DOMAIN ranked_sections :
              /\ result.extracted_sections[i].document = ranked_sections[i].doc
              /\ result.extracted_sections[i].page = ranked_sections[i].page
              /\ IsPrefixOf(result.subsection_analysis[i].refined_text,
                            ranked_sections[i].text)
        /\ \A x \in Range(ranked_sections) :
              Count(ranked_sections, x) <= Count(all_sections, x)
        /\ \A i \in DOMAIN all_sections :
              Count(ranked_sections, all_sections[i])
                    < Count(all_sections, all_sections[i])
                 => \A j \in DOMAIN ranked_sections :
                       all_sections[i].score <= ranked_sections[j].score

\* a report that leaves out candidates of strictly lower score, one of which
\* is among the first 10 of the pool
C10_Witness ==
    /\ Returned
    /\ Len(all_sections) > TopK
    /\ \E i \in 1..TopK :
          /\ Count(ranked_sections, all_sections[i]) = 0
          /\ \A j \in DOMAIN ranked_sections :
                all_sections[i].score < ranked_sections[j].score
====
